---- MODULE Spec2Model ----
(***************************************************************************)
(* A model of GPflow/misc.py: tensor lookup by name, value classification, *)
(* management of the graph's trainable-variables collection, dtype         *)
(* normalisation and the packing of vectors into lower-triangular          *)
(* matrices.                                                               *)
(*                                                                         *)
(* Every function of the module is an operator that computes a result      *)
(* record, Return(v) or Raise(e), and an action that calls it: the action   *)
(* stores the call in `call' and what came back in `result'.  The calls of  *)
(* vec_to_tri are drawn by the initial predicate, and the action returns.   *)
(***************************************************************************)
EXTENDS Integers, Sequences, FiniteSets, TLC

VARIABLES
    graph_tensors,  \* the tensor addresses "name:index" the graph resolves
    trainables,     \* the graph's TRAINABLE_VARIABLES collection, a list
    FLOAT_TYPE,     \* settings.dtypes.float_type, read once at load
    history,        \* history of the collection, kept for the properties:
                    \*   before: the collection as the last call found it
                    \*   lastOk: per variable, its last call that did not fail
                    \*   removed: the variables some call has removed
    call,           \* the call made last: [fn |-> ..., arguments]
    result          \* what that call did: Return(value) or Raise(exception)

vars == <<graph_tensors, trainables, FLOAT_TYPE, history, call, result>>

----------------------------------------------------------------------------
(* Bounds of the model. *)

\* the graph's tensors have indices "0" .. ToString(MaxIndex)
MaxIndex == 2
\* the variables are 1 .. NumVariables
NumVariables == 3
\* the collection found at the start holds at most MaxInitial entries
MaxInitial == 2

Names == {"foo", "bar"}
Indices == {ToString(i) : i \in 0..MaxIndex}
Variables == 1..NumVariables

----------------------------------------------------------------------------
(* Python values and the two ways a call ends. *)

None == "None"

Return(v) == [kind |-> "return", value |-> v]
Raise(e) == [kind |-> "raise", exc |-> e]

\* a call that has not ended yet
Pending == [kind |-> "pending"]

Returned(r) == r.kind = "return"
Raised(r, e) == r.kind = "raise" /\ r.exc = e

----------------------------------------------------------------------------
(* Tensor lookup: get_tensor_by_name, _get_tensor_by_name.                  *)

\* as join, with the separator of tensor_name
join_slash(name, index) == name \o "/" \o index

\* ':'.join([name, index])
join(name, index) == name \o ":" \o index

\* the addresses of the graph's tensors: operation name, colon, output index
Addresses == {n \o ":" \o i : n \in Names, i \in Indices}

\* graph.get_tensor_by_name(address): the tensor at the address (a tensor is
\* identified by its address), KeyError when the graph has none there.
graph_get_tensor_by_name(graph, address) ==
    IF address \in graph THEN Return(address) ELSE Raise("KeyError")

get_tensor_by_name_private(name, index, graph) ==
    LET r == graph_get_tensor_by_name(graph, join(name, index))
    IN  IF Raised(r, "KeyError") THEN None ELSE r.value

\* as get_tensor_by_name, without the probe of index "1"
get_tensor_by_name_unprobed(name, index, graph) ==
    IF index # None
    THEN Return(get_tensor_by_name_private(name, index, graph))
    ELSE Return(get_tensor_by_name_private(name, "0", graph))

\* as get_tensor_by_name, falling back on index "1" when index "0" is absent
get_tensor_by_name_fallback(name, index, graph) ==
    IF index # None
    THEN Return(get_tensor_by_name_private(name, index, graph))
    ELSE LET tensor == get_tensor_by_name_private(name, "0", graph)
             other == get_tensor_by_name_private(name, "1", graph)
         IN  IF tensor = None
             THEN Return(other)
             ELSE IF other # None
                  THEN Raise("ValueError")
                  ELSE Return(tensor)

get_tensor_by_name(name, index, graph) ==
    IF index # None
    THEN Return(get_tensor_by_name_private(name, index, graph))
    ELSE LET tensor == get_tensor_by_name_private(name, "0", graph)
         IN  IF tensor = None
             THEN Return(tensor)
             ELSE IF get_tensor_by_name_private(name, "1", graph) # None
                  THEN Raise("ValueError")
                  ELSE Return(tensor)

GetTensorByName ==
    \E name \in Names, index \in Indices \cup {None} :
        /\ call' = [fn |-> "get_tensor_by_name", name |-> name, index |-> index]
        /\ result' = get_tensor_by_name(name, index, graph_tensors)
        /\ UNCHANGED <<graph_tensors, trainables, FLOAT_TYPE, history>>

----------------------------------------------------------------------------
(* Value classification: is_ndarray, is_tensor, is_number,                  *)
(* is_valid_param_value.  A value is known by its class; None is the one    *)
(* value of NoneType.                                                       *)

PyValues ==
    {None, "str", "np.str_", "bytes", "int", "bool", "float", "complex",
     "fractions.Fraction", "np.float64", "np.int32", "np.bool_",
     "np.ndarray", "np.matrix", "tf.Tensor", "tf.Variable",
     "list", "tuple", "dict", "object"}

\* the classes a value is an instance of (its class and the bases of it)
Bases(value) ==
    CASE value = None -> {"NoneType"}
      [] value = "np.str_" -> {"np.str_", "str", "np.generic"}
      [] value = "bool" -> {"bool", "int", "numbers.Number"}
      [] value = "int" -> {"int", "numbers.Number"}
      [] value = "float" -> {"float", "numbers.Number"}
      [] value = "complex" -> {"complex", "numbers.Number"}
      [] value = "fractions.Fraction" -> {"fractions.Fraction", "numbers.Number"}
      [] value = "np.float64" -> {"np.float64", "float", "np.generic", "numbers.Number"}
      [] value = "np.int32" -> {"np.int32", "np.generic", "numbers.Number"}
      [] value = "np.bool_" -> {"np.bool_", "np.generic"}
      [] value = "np.matrix" -> {"np.matrix", "np.ndarray"}
      [] OTHER -> {value}

isinstance(value, classes) == Bases(value) \cap classes # {}

\* np.isscalar(value): a numpy scalar, a value of one of the built-in scalar
\* classes, or a number
np_isscalar(value) ==
    \/ isinstance(value, {"np.generic"})
    \/ value \in {"int", "float", "complex", "bool", "bytes", "str"}
    \/ isinstance(value, {"numbers.Number"})

is_ndarray(value) == isinstance(value, {"np.ndarray"})

is_tensor(value) == isinstance(value, {"tf.Tensor", "tf.Variable"})

is_number(value) == (~ isinstance(value, {"str"})) /\ np_isscalar(value)

\* as is_valid_param_value, with the null check guarding every alternative
\* and tensors left out
is_valid_param_value_no_tensor(value) ==
    (value # None) /\ (is_number(value) \/ is_ndarray(value))

\* `and' binds tighter than `or'
is_valid_param_value(value) ==
    \/ ((value # None) /\ is_number(value))
    \/ is_ndarray(value)
    \/ is_tensor(value)

IsValidParamValue ==
    \E value \in PyValues :
        /\ call' = [fn |-> "is_valid_param_value", value |-> value]
        /\ result' = Return(is_valid_param_value(value))
        /\ UNCHANGED <<graph_tensors, trainables, FLOAT_TYPE, history>>

----------------------------------------------------------------------------
(* Dtype normalisation: normalize_dtype.  A dtype-like value has a form and *)
(* an elemental type.  The forms: "tf.DType", the framework's dtype object; *)
(* "np.type", a numpy scalar class such as np.int32; "array", an array or   *)
(* numpy scalar, whose dtype attribute is its numpy dtype.                  *)

ElemTypes ==
    {"float16", "float32", "float64", "int8", "int16", "int32", "int64",
     "uint8", "bool", "complex64", "string"}

tf_float32 == [form |-> "tf.DType", elem |-> "float32"]
tf_float64 == [form |-> "tf.DType", elem |-> "float64"]
np_int32 == [form |-> "np.type", elem |-> "int32"]

DtypeInputs == [form : {"tf.DType", "np.type", "array"}, elem : ElemTypes]

\* tf.DType.as_numpy_dtype: the numpy scalar class of the dtype (np.object_
\* for tf.string)
as_numpy_dtype(value) ==
    [form |-> "np.type",
     elem |-> IF value.elem = "string" THEN "object" ELSE value.elem]

\* tf.as_dtype(value): the framework's dtype object of the same elemental type
tf_as_dtype(value) == [form |-> "tf.DType", elem |-> value.elem]

\* value.dtype.type: an array's dtype has its scalar class as type.  On a
\* numpy scalar class, dtype is the class's attribute descriptor and has no
\* type; a tf.DType has no dtype.
dtype_type(value) ==
    IF value.form = "array"
    THEN Return(value.elem)
    ELSE Raise("AttributeError")

normalize_dtype(value) ==
    LET tf_type == value.form = "tf.DType"
        unwrapped == IF tf_type THEN as_numpy_dtype(value) ELSE value
        type == dtype_type(unwrapped)
        finish(normal) ==
            Return(IF ~ tf_type THEN normal ELSE tf_as_dtype(normal))
    IN  IF ~ Returned(type) THEN type
        ELSE IF type.value \in {"float32", "float64"} THEN finish(FLOAT_TYPE)
        ELSE IF type.value \in {"int16", "int32", "int64"} THEN finish(np_int32)
        ELSE Raise("ValueError")

NormalizeDtype ==
    \E value \in DtypeInputs :
        /\ call' = [fn |-> "normalize_dtype", value |-> value]
        /\ result' = normalize_dtype(value)
        /\ UNCHANGED <<graph_tensors, trainables, FLOAT_TYPE, history>>

----------------------------------------------------------------------------
(* The trainables collection: add_to_trainables, remove_from_trainables.    *)

\* variable in collection
contains(collection, variable) ==
    \E i \in 1..Len(collection) : collection[i] = variable

\* as list_remove, removing the last entry whatever it is (list.pop())
list_pop(collection, variable) == SubSeq(collection, 1, Len(collection) - 1)

\* list.remove(variable): the list without its first occurrence of variable
list_remove(collection, variable) ==
    LET first == CHOOSE i \in 1..Len(collection) :
                    /\ collection[i] = variable
                    /\ \A j \in 1..(i - 1) : collection[j] # variable
    IN  SubSeq(collection, 1, first - 1)
            \o SubSeq(collection, first + 1, Len(collection))

\* what a call on the collection did: its result and the collection after it
Outcome(r, collection) == [result |-> r, collection |-> collection]

\* as add_to_trainables, without the membership test
add_to_trainables_unchecked(variable, collection) ==
    Outcome(Return(None), Append(collection, variable))

add_to_trainables(variable, collection) ==
    IF ~ contains(collection, variable)
    THEN Outcome(Return(None), Append(collection, variable))
    ELSE Outcome(Return(None), collection)

\* as remove_from_trainables, passing over a variable that is not a member
remove_from_trainables_silent(variable, collection) ==
    IF ~ contains(collection, variable)
    THEN Outcome(Return(None), collection)
    ELSE Outcome(Return(None), list_remove(collection, variable))

remove_from_trainables(variable, collection) ==
    IF ~ contains(collection, variable)
    THEN Outcome(Raise("GPflowError"), collection)
    ELSE Outcome(Return(None), list_remove(collection, variable))

\* the history after the call op(variable) that ended with r
Recorded(op, variable, r) ==
    [before |-> trainables,
     lastOk |-> IF Returned(r)
                THEN [history.lastOk EXCEPT ![variable] = op]
                ELSE history.lastOk,
     removed |-> IF Returned(r) /\ op = "remove"
                 THEN history.removed \cup {variable}
                 ELSE history.removed]

AddToTrainables ==
    \E variable \in Variables :
        LET done == add_to_trainables(variable, trainables)
        IN  /\ call' = [fn |-> "add_to_trainables", variable |-> variable]
            /\ trainables' = done.collection
            /\ result' = done.result
            /\ history' = Recorded("add", variable, done.result)
            /\ UNCHANGED <<graph_tensors, FLOAT_TYPE>>

RemoveFromTrainables ==
    \E variable \in Variables :
        LET done == remove_from_trainables(variable, trainables)
        IN  /\ call' = [fn |-> "remove_from_trainables", variable |-> variable]
            /\ trainables' = done.collection
            /\ result' = done.result
            /\ history' = Recorded("remove", variable, done.result)
            /\ UNCHANGED <<graph_tensors, FLOAT_TYPE>>

----------------------------------------------------------------------------
(* Packing vectors into lower-triangular matrices: vec_to_tri.  Vectors and *)
(* index lists are sequences; a matrix is a function of the 0-based row and *)
(* column.                                                                  *)

\* the largest N, the largest batch size D and the largest entry of the model
MaxN == 3
MaxD == 2
MaxVal == 2

\* as tril_indices, with the coordinates of the upper triangle
RECURSIVE triu_indices(_)
triu_indices(N) ==
    IF N = 0
    THEN <<>>
    ELSE triu_indices(N - 1) \o [j \in 1..N |-> <<j - 1, N - 1>>]

\* list(zip(*np.tril_indices(N))): the coordinates (row, column) of the lower
\* triangle of an N x N matrix, row by row
RECURSIVE tril_indices(_)
tril_indices(N) ==
    IF N = 0
    THEN <<>>
    ELSE tril_indices(N - 1) \o [j \in 1..N |-> <<N - 1, j - 1>>]

\* the sum of the updates whose index is the coordinate at
RECURSIVE scattered(_, _, _, _)
scattered(indices, updates, at, k) ==
    IF k = 0
    THEN 0
    ELSE scattered(indices, updates, at, k - 1)
            + (IF indices[k] = at THEN updates[k] ELSE 0)

\* tf.scatter_nd(indices, updates, shape=[N, N]): zeros, with every update
\* added at its index
scatter_nd(indices, N, updates) ==
    [i \in 0..(N - 1) |->
        [j \in 0..(N - 1) |-> scattered(indices, updates, <<i, j>>, Len(indices))]]

\* tf.map_fn(fn, elems) for one fn of the module: fn applied to each element
\* along the leading dimension
vec_to_tri(vectors, N) ==
    LET indices == tril_indices(N)
        vec_to_tri_vector(vector) == scatter_nd(indices, N, vector)
    IN  [d \in DOMAIN vectors |-> vec_to_tri_vector(vectors[d])]

\* The vectors of the model: of length M, its entries start, start + step,
\* start + 2 step, ...
Progression(M, start, step) == [k \in 1..M |-> start + (k - 1) * step]

VectorsOf(M) == {Progression(M, start, step) : start \in 0..MaxVal, step \in 0..MaxVal}

Triangular(N) == (N * (N + 1)) \div 2

\* the calls of vec_to_tri of the model: D vectors of length N(N+1)/2
VecToTriCalls ==
    UNION {[fn : {"vec_to_tri"}, N : {N},
            vectors : [1..D -> VectorsOf(Triangular(N))]] :
                N \in 1..MaxN, D \in 1..MaxD}

\* the call that was made returns
VecToTri ==
    /\ call.fn = "vec_to_tri"
    /\ result = Pending
    /\ result' = Return(vec_to_tri(call.vectors, call.N))
    /\ UNCHANGED <<graph_tensors, trainables, FLOAT_TYPE, history, call>>

----------------------------------------------------------------------------
(* Specifications. *)

NoHistory ==
    [before |-> <<>>, lastOk |-> [v \in Variables |-> "none"], removed |-> {}]

Init ==
    /\ graph_tensors \in SUBSET Addresses
    /\ trainables = <<>>
    /\ FLOAT_TYPE \in {tf_float32, tf_float64}
    /\ history = NoHistory
    /\ call = [fn |-> "load"]
    /\ result = Return(None)

Next ==
    \/ GetTensorByName
    \/ IsValidParamValue
    \/ NormalizeDtype

\* the helpers that read the graph and the settings
Spec == Init /\ [][Next]_vars

\* the sequences over S of length at most n
SeqUpTo(S, n) == UNION {[1..m -> S] : m \in 0..n}

InitTrain ==
    /\ graph_tensors = {}
    /\ trainables \in SeqUpTo(Variables, MaxInitial)
    /\ FLOAT_TYPE = tf_float64
    /\ history = [NoHistory EXCEPT !.before = trainables]
    /\ call = [fn |-> "load"]
    /\ result = Return(None)

InitTrainEmpty ==
    /\ InitTrain
    /\ trainables = <<>>

NextTrain ==
    \/ AddToTrainables
    \/ RemoveFromTrainables

\* the collection's operations, on a collection that others filled before
SpecTrain == InitTrain /\ [][NextTrain]_vars

\* the collection's operations, on a collection that starts empty
SpecTrainEmpty == InitTrainEmpty /\ [][NextTrain]_vars

InitTri ==
    /\ graph_tensors = {}
    /\ trainables = <<>>
    /\ FLOAT_TYPE = tf_float64
    /\ history = NoHistory
    /\ call \in VecToTriCalls
    /\ result = Pending

NextTri ==
    \/ VecToTri

\* the packing of batches of vectors: a call is made, and returns
SpecTri == InitTri /\ [][NextTri]_vars

----------------------------------------------------------------------------
(* Properties. *)

IsCall(fn) == call.fn = fn

\* the address name:index, as the graph spells it
Address(name, index) == name \o ":" \o index

Resolves(name, index) == Address(name, index) \in graph_tensors

IndexOmitted == IsCall("get_tensor_by_name") /\ call.index = None

Ambiguous == IndexOmitted /\ Resolves(call.name, "0") /\ Resolves(call.name, "1")

\* C1, as claimed: get_tensor_by_name(name) with the index omitted, on a graph
\* that resolves both name:0 and name:1, fails with an error of the class
\* AmbiguousTensorError.
C1_AsClaimed == Ambiguous => Raised(result, "AmbiguousTensorError")

\* C1, amended: get_tensor_by_name(name) with the index omitted, on a graph
\* that resolves both name:0 and name:1, returns no tensor: it fails with a
\* ValueError (the module has no class of its own for the ambiguous lookup).
C1_Ambiguous == Ambiguous => Raised(result, "ValueError")

C1_Witness ==
    /\ Ambiguous
    /\ call.name = "foo"
    /\ graph_tensors = {"foo:0", "foo:1"}
    /\ result.kind = "raise"

\* C2: get_tensor_by_name(name) with the index omitted returns None, and
\* raises nothing, whenever name:0 is absent, whatever other indices of the
\* name the graph has; and it returns the tensor name:0 whenever name:0 is
\* present and name:1 is absent.
C2_IndexOmitted ==
    IndexOmitted =>
        /\ ~ Resolves(call.name, "0") => result = Return(None)
        /\ (Resolves(call.name, "0") /\ ~ Resolves(call.name, "1"))
                => result = Return(Address(call.name, "0"))

C2_Witness ==
    /\ IndexOmitted
    /\ call.name = "foo"
    /\ ~ Resolves("foo", "0")
    /\ Resolves("foo", "1")
    /\ result = Return(None)

\* C3: get_tensor_by_name(name, index) with an index given returns the tensor
\* at the address name:index when the graph has one and None otherwise; it
\* never raises, even when the graph has several indices of the name.
C3_IndexGiven ==
    (IsCall("get_tensor_by_name") /\ call.index # None) =>
        result = IF Resolves(call.name, call.index)
                 THEN Return(Address(call.name, call.index))
                 ELSE Return(None)

C3_Witness ==
    /\ IsCall("get_tensor_by_name")
    /\ call.name = "foo"
    /\ call.index = "1"
    /\ Resolves("foo", "0")
    /\ Resolves("foo", "1")
    /\ result = Return("foo:1")

\* the number of entries of the collection that are the variable
Count(collection, variable) ==
    Cardinality({i \in 1..Len(collection) : collection[i] = variable})

\* the collection without the entries that are the variable
RECURSIVE Without(_, _)
Without(collection, variable) ==
    IF collection = <<>>
    THEN <<>>
    ELSE IF Head(collection) = variable
         THEN Without(Tail(collection), variable)
         ELSE <<Head(collection)>> \o Without(Tail(collection), variable)

\* C4: add_to_trainables(v) is an idempotent insert.  A call that finds v
\* absent leaves exactly one v in the collection, after all that was there;
\* a call that finds v present raises nothing and leaves the collection as it
\* was (so any number of calls in a row leave the one v of the first).
C4_IdempotentInsert ==
    IsCall("add_to_trainables") =>
        /\ Returned(result)
        /\ ~ contains(history.before, call.variable)
                => /\ Count(trainables, call.variable) = 1
                   /\ trainables = Append(history.before, call.variable)
        /\ contains(history.before, call.variable)
                => trainables = history.before

\* the second of two calls in a row: v was added, and is added again
C4_Witness ==
    /\ IsCall("add_to_trainables")
    /\ history.lastOk[call.variable] = "add"
    /\ contains(history.before, call.variable)
    /\ Count(trainables, call.variable) = 1
    /\ trainables = history.before
    /\ Len(trainables) > 1

\* C5: remove_from_trainables(v), when v is not in the collection, fails with
\* a GPflowError and leaves the collection as it was; when v is in the
\* collection, it raises nothing.
C5_RemoveAbsent ==
    IsCall("remove_from_trainables") =>
        /\ ~ contains(history.before, call.variable)
                => (Raised(result, "GPflowError") /\ trainables = history.before)
        /\ contains(history.before, call.variable) => Returned(result)

C5_Witness ==
    /\ IsCall("remove_from_trainables")
    /\ ~ contains(history.before, call.variable)
    /\ history.before # <<>>
    /\ Raised(result, "GPflowError")
    /\ trainables = history.before

\* C10: from an empty collection, after any calls of add_to_trainables and
\* remove_from_trainables: the collection has no duplicate; a variable is in
\* it exactly when its last call that did not fail was add_to_trainables; and
\* the last call, on v, left the other variables as they were, in the order
\* they were.
C10_Collection ==
    /\ \A v \in Variables : Count(trainables, v) <= 1
    /\ \A v \in Variables : contains(trainables, v) <=> history.lastOk[v] = "add"
    /\ (IsCall("add_to_trainables") \/ IsCall("remove_from_trainables"))
            => Without(trainables, call.variable)
                    = Without(history.before, call.variable)

\* v was removed, and added again, among other variables
C10_Witness ==
    /\ IsCall("add_to_trainables")
    /\ call.variable \in history.removed
    /\ history.lastOk[call.variable] = "add"
    /\ ~ contains(history.before, call.variable)
    /\ contains(trainables, call.variable)
    /\ Len(trainables) > 1

\* C6: is_valid_param_value(value) is true exactly when value is not None and
\* is a number, an array or a tensor, whatever value is.
C6_ValidParamValue ==
    IsCall("is_valid_param_value") =>
        (result.value
            <=> /\ call.value # None
                /\ (is_number(call.value) \/ is_ndarray(call.value)
                        \/ is_tensor(call.value)))

C6_Witness ==
    /\ IsCall("is_valid_param_value")
    /\ call.value = "tf.Variable"
    /\ result = Return(TRUE)

\* the elemental types the claim names
FloatTypes == {"float32", "float64"}
IntTypes == {"int16", "int32", "int64"}

IsFloat(value) == value.elem \in FloatTypes
IsInt(value) == value.elem \in IntTypes
Wrapped(value) == value.form = "tf.DType"

\* C7: normalize_dtype maps the elemental type of its input, whatever its
\* width: a 32- or 64-bit float gives the configured float precision, a 16-,
\* 32- or 64-bit integer gives the 32-bit integer, and any other elemental
\* type fails with the unknown-dtype error (a ValueError).
C7_ElementalType ==
    IsCall("normalize_dtype") =>
        /\ IsFloat(call.value)
                => (Returned(result) /\ result.value.elem = FLOAT_TYPE.elem)
        /\ IsInt(call.value)
                => (Returned(result) /\ result.value.elem = "int32")
        /\ (~ IsFloat(call.value) /\ ~ IsInt(call.value))
                => Raised(result, "ValueError")

\* C8: normalize_dtype keeps the form of its input: the result for a wrapped
\* dtype is a wrapped dtype and the result for a raw one is raw, for floats
\* and for integers, whatever the configured float precision.
C8_FormKept ==
    (IsCall("normalize_dtype") /\ Returned(result)) =>
        (Wrapped(result.value) <=> Wrapped(call.value))

\* the coordinate of position k (from 0) in the enumeration of the lower
\* triangle row by row: (0,0), (1,0), (1,1), (2,0), ...
RowOf(k) == CHOOSE r \in 0..k : Triangular(r) <= k /\ k < Triangular(r + 1)
ColOf(k) == k - Triangular(RowOf(k))

\* C9: vec_to_tri(vectors, N), for D vectors of length N(N+1)/2, returns D
\* matrices of N x N: in each, entry k of its vector is at the k-th
\* coordinate of the lower triangle enumerated row by row, and the entries
\* above the diagonal are zero; the coordinates are the same for all D.
C9_LowerTriangle ==
    (IsCall("vec_to_tri") /\ result # Pending) =>
        /\ Returned(result)
        /\ DOMAIN result.value = DOMAIN call.vectors
        /\ \A d \in DOMAIN call.vectors :
            /\ DOMAIN result.value[d] = 0..(call.N - 1)
            /\ \A i \in 0..(call.N - 1) :
                    DOMAIN result.value[d][i] = 0..(call.N - 1)
            /\ \A k \in 0..(Triangular(call.N) - 1) :
                    result.value[d][RowOf(k)][ColOf(k)] = call.vectors[d][k + 1]
            /\ \A i, j \in 0..(call.N - 1) :
                    i < j => result.value[d][i][j] = 0

\* [a, b, c] with N = 2 gives [[a, 0], [b, c]], in a batch of two
C9_Witness ==
    /\ IsCall("vec_to_tri")
    /\ Returned(result)
    /\ call.N = 2
    /\ call.vectors = <<<<1, 2, 3>>, <<2, 4, 6>>>>
    /\ result.value[1] = (0 :> (0 :> 1 @@ 1 :> 0) @@ 1 :> (0 :> 2 @@ 1 :> 3))
    /\ result.value[2] = (0 :> (0 :> 2 @@ 1 :> 0) @@ 1 :> (0 :> 4 @@ 1 :> 6))

====
